---- MODULE Spec2Model ----
(***************************************************************************)
(* Model of VITyarthiproject.py: the metrics engine (calculate_bmi,        *)
(* get_bmi_category, get_bmi_explanation, get_sleep_feedback,              *)
(* get_activity_feedback, get_smoking_advice,                              *)
(* generate_health_recommendations) and the form handler                   *)
(* HealthCalculatorApp.calculate_health.                                   *)
(*                                                                         *)
(* Python floats are modelled as tagged values:                            *)
(*   "fin"   an exact rational n/d (d > 0, lowest terms);                  *)
(*   "nan"   float('nan');  "inf" float('inf') with sign n;                *)
(*   "big"   a finite double so large that (x/100)**2 overflows (1e200);   *)
(*   "small" a nonzero double so small that (x/100)**2 underflows to 0.0   *)
(*           (1e-200).                                                     *)
(* Binary rounding error of finite doubles is not modelled: finite         *)
(* arithmetic is exact.  A raised exception is a value whose tag is the    *)
(* exception's class name.                                                 *)
(***************************************************************************)
EXTENDS Integers, Sequences, FiniteSets, TLC

VARIABLES
    input_vars,     \* texts of the Entry widgets age, height_cm, weight_kg, sleep_hours
    activity_var,   \* value of the activity Combobox
    smoking_var,    \* value of the smoking Combobox
    results_text,   \* lines displayed by the results Text widget
    messagebox,     \* <<title, reason>> of the alert shown by the last click, or <<>>
    uncaught,       \* class of the exception that escaped the last click, or ""
    calls,          \* engine functions the last click invoked, in order
    shown_before,   \* "none" before the first click, else what the Text widget
                    \* held when the last click happened: "empty" or "report"
    pc,             \* engine harness: "idle" or "returned"
    call,           \* engine harness: the call made, <<function, arguments...>>
    ret             \* engine harness: what the call returned

gui_vars == <<input_vars, activity_var, smoking_var, results_text, messagebox,
              uncaught, calls, shown_before>>
engine_vars == <<pc, call, ret>>
vars == <<gui_vars, engine_vars>>

(***************************************************************************)
(* Arithmetic helpers.                                                     *)
(***************************************************************************)
Abs(i) == IF i < 0 THEN -i ELSE i

RECURSIVE Gcd(_, _)
Gcd(a, b) == IF b = 0 THEN a ELSE Gcd(b, a % b)

RECURSIVE Pow10(_)
Pow10(e) == IF e = 0 THEN 1 ELSE 10 * Pow10(e - 1)

\* Nearest integer to n/d (d > 0), ties to the even integer: the rule of
\* Python's round() and of its fixed-point format specifications.
RoundHalfEven(n, d) ==
    LET q == n \div d
        r == n % d
    IN  IF 2 * r < d THEN q
        ELSE IF 2 * r > d THEN q + 1
        ELSE IF q % 2 = 0 THEN q ELSE q + 1

(***************************************************************************)
(* Python float values.                                                    *)
(***************************************************************************)
Fin(n, d) ==
    LET g == Gcd(Abs(n), d)
    IN  [k |-> "fin", n |-> n \div g, d |-> d \div g]

Zero == Fin(0, 1)
NaN == [k |-> "nan", n |-> 0, d |-> 1]
Inf(s) == [k |-> "inf", n |-> s, d |-> 1]
Big(s) == [k |-> "big", n |-> s, d |-> 1]
Small(s) == [k |-> "small", n |-> s, d |-> 1]
Raise(exc) == [k |-> exc, n |-> 0, d |-> 1]

ExceptionNames == {"ValueError", "TypeError", "OverflowError", "ZeroDivisionError"}
IsExc(x) == x.k \in ExceptionNames
IsFinite(x) == x.k \in {"fin", "big", "small"}

\* Position of a non-nan float on the number line, up to the order among
\* "fin" values: -inf < -big < negative fin < -small < 0 < small < positive
\* fin < big < inf.
Mag(x) ==
    IF x.k = "inf" THEN 4
    ELSE IF x.k = "big" THEN 3
    ELSE IF x.k = "small" THEN 1
    ELSE IF x.n = 0 THEN 0 ELSE 2

Sign(x) == IF x.n > 0 THEN 1 ELSE IF x.n < 0 THEN -1 ELSE 0

Key(x) == Sign(x) * Mag(x)

\* x < y on floats; every comparison with nan is False.
FLt(x, y) ==
    /\ x.k # "nan"
    /\ y.k # "nan"
    /\ \/ Key(x) < Key(y)
       \/ /\ x.k = "fin"
          /\ y.k = "fin"
          /\ x.n * y.d < y.n * x.d

FEq(x, y) == x.k # "nan" /\ y.k # "nan" /\ x = y
FLe(x, y) == FLt(x, y) \/ FEq(x, y)
FGt(x, y) == FLt(y, x)

\* x / 100 (height_cm / 100).
FDiv100(x) ==
    IF x.k = "fin" THEN Fin(x.n, x.d * 100) ELSE x

\* x ** 2: float.__pow__ raises OverflowError when the result is out of
\* range and silently underflows to 0.0.
FPow2(x) ==
    IF x.k = "fin" THEN Fin(x.n * x.n, x.d * x.d)
    ELSE IF x.k = "nan" THEN NaN
    ELSE IF x.k = "inf" THEN Inf(1)
    ELSE IF x.k = "big" THEN Raise("OverflowError")
    ELSE Zero

\* x / y: float.__truediv__ raises ZeroDivisionError on a zero divisor.
\* The divisor is always a square here: fin >= 0, nan or +inf.
FDiv(x, y) ==
    IF y.k = "fin" /\ y.n = 0 THEN Raise("ZeroDivisionError")
    ELSE IF x.k = "nan" \/ y.k = "nan" THEN NaN
    ELSE IF y.k = "inf" THEN (IF x.k = "inf" THEN NaN ELSE Zero)
    ELSE IF x.k = "fin" THEN Fin(x.n * y.d, x.d * y.n)
    ELSE x

\* Cutting x to 2 decimals instead of rounding it.
FTrunc2(x) ==
    IF x.k = "fin" THEN Fin((x.n * 100) \div x.d, 100)
    ELSE IF x.k = "small" THEN Zero
    ELSE x

\* round(x, 2).
FRound2(x) ==
    IF x.k = "fin" THEN Fin(RoundHalfEven(x.n * 100, x.d), 100)
    ELSE IF x.k = "small" THEN Zero
    ELSE x

(***************************************************************************)
(* The text of an Entry is a sequence of one-character strings.  int() and *)
(* float() are modelled on the grammar  [sign] digits                      *)
(* and  [sign] (nan | inf | digits [. digits] [e [sign] digits]);          *)
(* surrounding whitespace, underscores and capital letters are not         *)
(* modelled.                                                               *)
(***************************************************************************)
Digits == <<"0", "1", "2", "3", "4", "5", "6", "7", "8", "9">>

IsDigit(c) == \E i \in 1..10 : Digits[i] = c

DigitVal(c) == (CHOOSE i \in 1..10 : Digits[i] = c) - 1

AllDigits(t) == Len(t) > 0 /\ \A i \in 1..Len(t) : IsDigit(t[i])

RECURSIVE NatOf(_)
NatOf(t) ==
    IF Len(t) = 0 THEN 0
    ELSE 10 * NatOf(SubSeq(t, 1, Len(t) - 1)) + DigitVal(t[Len(t)])

\* First position of character c in t, or 0.
IndexOf(t, c) ==
    IF \E i \in 1..Len(t) : t[i] = c
    THEN CHOOSE i \in 1..Len(t) : t[i] = c /\ \A j \in 1..(i - 1) : t[j] # c
    ELSE 0

HasSign(t) == Len(t) > 0 /\ t[1] \in {"+", "-"}
SignOf(t) == IF Len(t) > 0 /\ t[1] = "-" THEN -1 ELSE 1
Unsigned(t) == IF HasSign(t) THEN Tail(t) ELSE t

\* int(text): [ok |-> TRUE, v |-> the integer], or ok = FALSE for ValueError.
PyInt(t) ==
    IF AllDigits(Unsigned(t))
    THEN [ok |-> TRUE, v |-> SignOf(t) * NatOf(Unsigned(t))]
    ELSE [ok |-> FALSE, v |-> 0]

\* The float denoted by mantissa m / 10^f times 10^e (m > 0 has one digit
\* when e is outside -6..6).  Beyond 1e308 float() returns inf and below
\* 1e-324 it returns 0.0; from 1e157 on the value is "big" and down from
\* 1e-161 it is "small".  The decades in between are outside the model.
Scaled(s, m, f, e) ==
    IF m = 0 THEN Zero
    ELSE IF e >= 0 /\ e <= 6 THEN Fin(s * m * Pow10(e), Pow10(f))
    ELSE IF e < 0 /\ e >= -6 THEN Fin(s * m, Pow10(f - e))
    ELSE IF e > 308 THEN Inf(s)
    ELSE IF e >= 157 THEN Big(s)
    ELSE IF e < -324 THEN Zero
    ELSE IF e <= -161 THEN Small(s)
    ELSE Raise("Unmodelled")

\* The mantissa with integer digits ip and fraction digits fp, as
\* <<ok, value of the digits, number of fraction digits>>.
MantissaOf(ip, fp) ==
    IF /\ Len(ip) + Len(fp) > 0
       /\ \A i \in 1..Len(ip) : IsDigit(ip[i])
       /\ \A i \in 1..Len(fp) : IsDigit(fp[i])
    THEN <<TRUE, NatOf(ip \o fp), Len(fp)>>
    ELSE <<FALSE, 0, 0>>

\* The mantissa  digits [. digits]  with its "." at position dot (0: none).
SplitAtDot(t, dot) ==
    IF dot = 0 THEN MantissaOf(t, <<>>)
    ELSE MantissaOf(SubSeq(t, 1, dot - 1), SubSeq(t, dot + 1, Len(t)))

Mantissa(t) == SplitAtDot(t, IndexOf(t, "."))

\* The float with sign s, mantissa m (as Mantissa gives it) and exponent
\* text et, which is <<>> when the text has no "e".
FloatOfParts(s, m, has_e, et) ==
    IF ~m[1] THEN Raise("ValueError")
    ELSE IF ~has_e THEN Scaled(s, m[2], m[3], 0)
    ELSE IF ~AllDigits(Unsigned(et)) THEN Raise("ValueError")
    ELSE Scaled(s, m[2], m[3], SignOf(et) * NatOf(Unsigned(et)))

\* The float written by the unsigned text u at whose position e_pos the
\* first "e" stands (0 if there is none), with sign s.
FloatOfUnsigned(s, u, e_pos) ==
    IF u = <<"n", "a", "n">> THEN NaN
    ELSE IF u = <<"i", "n", "f">> THEN Inf(s)
    ELSE IF e_pos = 0 THEN FloatOfParts(s, Mantissa(u), FALSE, <<>>)
    ELSE FloatOfParts(s, Mantissa(SubSeq(u, 1, e_pos - 1)), TRUE,
                      SubSeq(u, e_pos + 1, Len(u)))

\* float(text): the float, or Raise("ValueError").
PyFloat(t) == FloatOfUnsigned(SignOf(t), Unsigned(t), IndexOf(Unsigned(t), "e"))

(***************************************************************************)
(* Formatting.                                                             *)
(***************************************************************************)
RECURSIVE Repeat(_, _)
Repeat(str, n) == IF n = 0 THEN "" ELSE str \o Repeat(str, n - 1)

\* v >= 0 written with at least w digits.
RECURSIVE ZeroPad(_, _)
ZeroPad(v, w) ==
    IF w <= 1 THEN ToString(v)
    ELSE IF v < Pow10(w - 1) THEN "0" \o ZeroPad(v, w - 1)
    ELSE ToString(v)

\* f"{x:.pf}": fixed point with p >= 1 decimals.
FormatFixed(x, p) ==
    IF x.k = "nan" THEN "nan"
    ELSE IF x.k = "inf" THEN (IF x.n < 0 THEN "-inf" ELSE "inf")
    ELSE LET r == RoundHalfEven(Abs(x.n) * Pow10(p), x.d)
         IN  (IF x.n < 0 THEN "-" ELSE "")
             \o ToString(r \div Pow10(p)) \o "." \o ZeroPad(r % Pow10(p), p)

\* The least p >= 1 such that d divides 10^p (d a divisor of a power of 10).
RECURSIVE DecimalPlaces(_, _)
DecimalPlaces(d, p) == IF Pow10(p) % d = 0 THEN p ELSE DecimalPlaces(d, p + 1)

\* f"{x}" of a float: repr(x), the shortest decimal that reads back as x.
FormatRepr(x) ==
    IF x.k = "nan" THEN "nan"
    ELSE IF x.k = "inf" THEN (IF x.n < 0 THEN "-inf" ELSE "inf")
    ELSE LET p == DecimalPlaces(x.d, 1)
             r == (Abs(x.n) * Pow10(p)) \div x.d
         IN  (IF x.n < 0 THEN "-" ELSE "")
             \o ToString(r \div Pow10(p)) \o "." \o ZeroPad(r % Pow10(p), p)

(***************************************************************************)
(* Constants for health metrics.                                           *)
(***************************************************************************)
IntToFloat(i) == Fin(i, 1)

\* A table whose 'Normal weight' ends at 24.9, leaving a gap below 25.0.
BMI_CATEGORIES_WithGap ==
    << [category |-> "Underweight", min_val |-> Zero, max_val |-> Fin(185, 10)],
       [category |-> "Normal weight", min_val |-> Fin(185, 10), max_val |-> Fin(249, 10)],
       [category |-> "Overweight", min_val |-> Fin(25, 1), max_val |-> Fin(30, 1)],
       [category |-> "Obesity", min_val |-> Fin(30, 1), max_val |-> Inf(1)] >>

\* BMI_CATEGORIES, in the dict's insertion order.
BMI_CATEGORIES ==
    << [category |-> "Underweight", min_val |-> Zero, max_val |-> Fin(185, 10)],
       [category |-> "Normal weight", min_val |-> Fin(185, 10), max_val |-> Fin(25, 1)],
       [category |-> "Overweight", min_val |-> Fin(25, 1), max_val |-> Fin(30, 1)],
       [category |-> "Obesity", min_val |-> Fin(30, 1), max_val |-> Inf(1)] >>

\* SLEEP_RECOMMENDATIONS: age group -> (min_hours, max_hours).
SLEEP_RECOMMENDATIONS ==
    [g \in {"18-64", "65+"} |->
        IF g = "18-64" THEN [min_h |-> 7, max_h |-> 9] ELSE [min_h |-> 7, max_h |-> 8]]

(***************************************************************************)
(* Core calculation functions.                                             *)
(***************************************************************************)
\* A guard that lets height_m = 0 through: height_m < 0.
HeightNegative(height_m) == FLt(height_m, Zero)

\* The guard of calculate_bmi: height_m <= 0.
HeightNotPositive(height_m) == FLe(height_m, Zero)

\* calculate_bmi, as [val |-> the float returned or the exception raised,
\* ops |-> the float operations it executed, in order].
calculate_bmi(weight_kg, height_m) ==
    IF HeightNotPositive(height_m) THEN [val |-> Zero, ops |-> <<>>]
    ELSE LET sq == FPow2(height_m)
             bmi == FDiv(weight_kg, sq)
             Caught(e) == e.k \in {"TypeError", "ValueError"}
         IN  IF IsExc(sq)
             THEN [val |-> IF Caught(sq) THEN Zero ELSE sq, ops |-> <<"pow">>]
             ELSE IF IsExc(bmi)
             THEN [val |-> IF Caught(bmi) THEN Zero ELSE bmi, ops |-> <<"pow", "div">>]
             ELSE [val |-> FRound2(bmi), ops |-> <<"pow", "div", "round">>]

\* The intervals closed at the wrong end: min_val < bmi <= max_val.
InCategoryUpperClosed(c, bmi) == FLt(c.min_val, bmi) /\ FLe(bmi, c.max_val)

\* The test of get_bmi_category's loop: min_val <= bmi < max_val.
InCategory(c, bmi) == FLe(c.min_val, bmi) /\ FLt(bmi, c.max_val)

get_bmi_category(bmi) ==
    IF \E i \in 1..Len(BMI_CATEGORIES) : InCategory(BMI_CATEGORIES[i], bmi)
    THEN BMI_CATEGORIES[CHOOSE i \in 1..Len(BMI_CATEGORIES) :
                           /\ InCategory(BMI_CATEGORIES[i], bmi)
                           /\ \A j \in 1..(i - 1) : ~InCategory(BMI_CATEGORIES[j], bmi)]
    ELSE [category |-> "Unknown", min_val |-> Zero, max_val |-> Zero]

get_bmi_explanation(category) ==
    IF category = "Underweight"
    THEN "This range suggests you may not be consuming enough nutrients or calories. Consult a professional for healthy weight gain strategies."
    ELSE IF category = "Normal weight"
    THEN "Your weight is considered healthy relative to your height, indicating a lower risk of common obesity-related diseases."
    ELSE IF category = "Overweight"
    THEN "This range indicates carrying excess weight. A focus on diet and increased activity is recommended to reduce health risks."
    ELSE IF category = "Obesity"
    THEN "This range is associated with a significantly increased risk for serious health conditions. Professional consultation for a weight management plan is strongly advised."
    ELSE "Could not determine a standard BMI meaning."

(***************************************************************************)
(* Recommendation functions.                                               *)
(***************************************************************************)
MinorsMessage ==
    "Note: Specific recommendations for minors/children are not included in this model."

RangeText(r) == ToString(r.min_h) \o "-" \o ToString(r.max_h)

BelowMessage(hours, r, age_group) ==
    "You slept " \o FormatRepr(hours) \o " hours, which is less than the recommended "
    \o RangeText(r) \o " hours for your age group (" \o age_group \o "). "
    \o "Recommendation: Try to prioritize an earlier bedtime and aim for a consistent sleep schedule to improve rest and focus."

AboveMessage(hours, r, age_group) ==
    "You slept " \o FormatRepr(hours) \o " hours, which is slightly more than the recommended "
    \o RangeText(r) \o " hours for your age group (" \o age_group \o "). "
    \o "Recommendation: Excessive sleep can sometimes indicate underlying issues. If this is unusual, review your daily routine for consistent sleep quality."

WithinMessage(hours, r) ==
    "Excellent! Your sleep of " \o FormatRepr(hours) \o " hours falls perfectly within the recommended "
    \o RangeText(r) \o " hour range. "
    \o "Recommendation: Maintain this consistent sleep pattern for optimal health."

\* The age group chosen by get_sleep_feedback, "" for the early return.
AgeGroup(age) ==
    IF 18 <= age /\ age <= 64 THEN "18-64"
    ELSE IF age >= 65 THEN "65+"
    ELSE ""

\* The branch on hours with the range open at both ends.
SleepBranchOpenRange(hours, r) ==
    IF FLe(hours, IntToFloat(r.min_h)) THEN "below"
    ELSE IF FLe(IntToFloat(r.max_h), hours) THEN "above"
    ELSE "within"

\* The branch on hours of get_sleep_feedback.
SleepBranch(hours, r) ==
    IF FLt(hours, IntToFloat(r.min_h)) THEN "below"
    ELSE IF FGt(hours, IntToFloat(r.max_h)) THEN "above"
    ELSE "within"

get_sleep_feedback(age, hours) ==
    LET age_group == AgeGroup(age)
    IN  IF age_group = "" THEN MinorsMessage
        ELSE LET r == SLEEP_RECOMMENDATIONS[age_group]
                 b == SleepBranch(hours, r)
             IN  IF b = "below" THEN BelowMessage(hours, r, age_group)
                 ELSE IF b = "above" THEN AboveMessage(hours, r, age_group)
                 ELSE WithinMessage(hours, r)

get_activity_feedback(activity_level_str) ==
    IF activity_level_str = "Sedentary"
    THEN "Sedentary Lifestyle Detected. Recommendation: Aim to break up long periods of sitting (e.g., stand up every hour). "
         \o "Start with 30 minutes of light activity (like walking) daily and gradually increase intensity to moderate."
    ELSE IF activity_level_str = "Moderate"
    THEN "Moderate Activity Level. Recommendation: You are meeting minimum guidelines! "
         \o "To maximize benefits, ensure you incorporate strength training (2-3 times per week) alongside your cardio for muscle and bone health."
    ELSE IF activity_level_str = "Active"
    THEN "Active Lifestyle! Recommendation: Excellent work. To prevent injury and fatigue, ensure proper recovery time, nutrition, and hydration. "
         \o "Consider mixing up your routines to engage different muscle groups."
    ELSE "Activity Recommendation: Could not determine specific advice."

get_smoking_advice(smoking_status) ==
    IF smoking_status = "Yes"
    THEN "Smoking Status: Tobacco use is extremely detrimental to cardiovascular and respiratory health. "
         \o "Health Priority: Seek support to quit smoking immediately. Resources like quit-lines or medical professionals can provide vital assistance."
    ELSE IF smoking_status = "No"
    THEN "Smoking Status: Non-smoker. Excellent! "
         \o "Recommendation: Maintain this status and avoid exposure to second-hand smoke to protect your long-term health."
    ELSE "Smoking Status: Unknown. Please confirm your smoking status for relevant advice."

generate_health_recommendations(category) ==
    LET recommendations ==
            << "General Wellness Tip: Aim for 5 servings of fruits and vegetables daily and minimize processed foods.",
               "Hydration Tip: Drink at least 8 glasses (about 2 liters) of water per day." >>
    IN  IF category = "Underweight"
        THEN Append(recommendations, "Nutritional Focus: Consider nutrient-dense foods (healthy fats, lean proteins) and consult a professional about healthy ways to gain muscle and fat mass.")
        ELSE IF category = "Normal weight"
        THEN Append(recommendations, "Maintenance Goal: Focus on consistency. Continue balancing a healthy diet with regular, varied exercise.")
        ELSE IF category = "Overweight"
        THEN Append(recommendations, "Dietary Change: Prioritize whole foods and increase high-fiber, low-calorie options like vegetables. Focus on sustainable portion control.")
        ELSE IF category = "Obesity"
        THEN Append(recommendations, "Health Priority: It is highly recommended to consult a healthcare provider for a personalized, safe, and effective plan. Focus on achievable, small, consistent changes.")
        ELSE recommendations

(***************************************************************************)
(* HealthCalculatorApp.                                                    *)
(***************************************************************************)
\* A handler that does not clear the Text widget.
KeepText(text) == text

\* results_text.delete(1.0, tk.END)
ClearText(text) == <<>>

\* results_text.insert(tk.END, report)
InsertAtEnd(text, report) == text \o report

\* The outcome of the try block of calculate_health when a ValueError with
\* message msg is raised in it.
Invalid(msg) ==
    [error |-> msg, age |-> 0, height_cm |-> Zero, weight_kg |-> Zero,
     sleep_hours |-> Zero]

\* The try block of calculate_health, given what int() and float() made of
\* the four texts: the parsed fields, or the message of the first
\* ValueError raised.
Validate(age, height_cm, weight_kg, sleep_hours) ==
    IF ~age.ok THEN Invalid("invalid literal for int() with base 10")
    ELSE IF IsExc(height_cm) \/ IsExc(weight_kg) \/ IsExc(sleep_hours)
    THEN Invalid("could not convert string to float")
    ELSE IF \/ age.v <= 0
            \/ FLe(height_cm, Zero)
            \/ FLe(weight_kg, Zero)
            \/ FLt(sleep_hours, Zero)
    THEN Invalid("All numerical inputs must be positive.")
    ELSE [error |-> "", age |-> age.v, height_cm |-> height_cm,
          weight_kg |-> weight_kg, sleep_hours |-> sleep_hours]

\* Step 1 of calculate_health on the form contents iv.
GatherAndValidate(iv) ==
    Validate(PyInt(iv.age), PyFloat(iv.height_cm), PyFloat(iv.weight_kg),
             PyFloat(iv.sleep_hours))

\* Steps 4 and 5 of calculate_health: the report, one element per line
\* (a leading "\n" of an appended string is an empty line).
FormatReport(age, height_cm, weight_kg, sleep_hours, activity_level_str, smoking_status, bmi, cat) ==
    << Repeat("=", 50),
       "          COMPREHENSIVE HEALTH METRICS REPORT",
       Repeat("=", 50),
       "Age: " \o ToString(age) \o " years",
       "Height: " \o FormatFixed(height_cm, 1) \o " cm | Weight: "
           \o FormatFixed(weight_kg, 1) \o " kg",
       Repeat("-", 50),
       "Calculated BMI: " \o FormatFixed(bmi, 2),
       "BMI Category: " \o cat.category,
       "(Ideal BMI Range: " \o FormatFixed(cat.min_val, 1) \o " to "
           \o FormatFixed(cat.max_val, 1) \o ")",
       "",
       "[ BMI Overall Meaning ]",
       "-> " \o get_bmi_explanation(cat.category),
       Repeat("=", 50),
       "",
       "[ Sleep Recommendation ]",
       "-> " \o get_sleep_feedback(age, sleep_hours),
       "",
       "[ Activity Recommendation ]",
       "-> " \o get_activity_feedback(activity_level_str),
       "",
       "[ Smoking Status Advice ]",
       "-> " \o get_smoking_advice(smoking_status),
       "",
       "[ General Health & Diet Suggestions ]" >>
    \o [i \in 1..Len(generate_health_recommendations(cat.category)) |->
           "-> " \o generate_health_recommendations(cat.category)[i]]

EngineCalls ==
    << "calculate_bmi", "get_bmi_category", "get_bmi_explanation",
       "get_sleep_feedback", "get_activity_feedback", "get_smoking_advice",
       "generate_health_recommendations" >>

\* What a click does after clearing the text: the ValueError message
\* caught ("" if none), the class of the exception that escapes ("" if
\* none), the engine functions invoked and the report inserted.
\* Steps 4 and 5, given the validated fields and the result of calculate_bmi.
ReportOrException(in, bmi, activity_level_str, smoking_status) ==
    IF IsExc(bmi.val)
    THEN [error |-> "", uncaught |-> bmi.val.k, calls |-> <<"calculate_bmi">>,
          report |-> <<>>]
    ELSE [error |-> "", uncaught |-> "", calls |-> EngineCalls,
          report |-> FormatReport(in.age, in.height_cm, in.weight_kg,
                                  in.sleep_hours, activity_level_str,
                                  smoking_status, bmi.val,
                                  get_bmi_category(bmi.val))]

\* The except clause, or steps 2 to 5, given the outcome of the try block.
AlertOrProcess(in, activity_level_str, smoking_status) ==
    IF in.error # ""
    THEN [error |-> in.error, uncaught |-> "", calls |-> <<>>, report |-> <<>>]
    ELSE ReportOrException(in, calculate_bmi(in.weight_kg, FDiv100(in.height_cm)),
                           activity_level_str, smoking_status)

\* The body of calculate_health after the text is cleared, for the form
\* contents iv.
RunHandler(iv, activity_level_str, smoking_status) ==
    AlertOrProcess(GatherAndValidate(iv), activity_level_str, smoking_status)

(***************************************************************************)
(* What the user may have typed into the four Entry widgets, numbered.     *)
(***************************************************************************)
AgeTexts ==
    << <<"a", "b", "c">>, <<"0">>, <<"1", "7">>, <<"2", "5">> >>

HeightTexts ==
    << <<>>, <<"0">>, <<"1", "7", "0">>, <<"1", "e", "2", "0", "0">> >>

WeightTexts ==
    << <<"7", "O">>, <<"-", "7", "0">>, <<"7", "0">>, <<"9", "5", ".", "5">>,
       <<"n", "a", "n">> >>

SleepTexts ==
    << <<"8", "h">>, <<"-", "1">>, <<"0">>, <<"8">> >>

\* The values offered by the two read-only Comboboxes.
ActivityLevels == <<"Sedentary", "Moderate", "Active">>
SmokingStatuses == <<"No", "Yes">>

\* A way of filling in the form: the numbers of the four texts and of the
\* two Combobox values.
Forms ==
    (DOMAIN AgeTexts) \X (DOMAIN HeightTexts) \X (DOMAIN WeightTexts)
        \X (DOMAIN SleepTexts) \X (DOMAIN ActivityLevels) \X (DOMAIN SmokingStatuses)

EntryTexts(f) ==
    [age |-> AgeTexts[f[1]], height_cm |-> HeightTexts[f[2]],
     weight_kg |-> WeightTexts[f[3]], sleep_hours |-> SleepTexts[f[4]]]

\* What the handler does with each form, tabulated once
\* (@@ <<>> makes each level an explicit function).
Handled ==
    [a \in DOMAIN AgeTexts |->
     [h \in DOMAIN HeightTexts |->
      [w \in DOMAIN WeightTexts |->
       [s \in DOMAIN SleepTexts |->
        [ac \in DOMAIN ActivityLevels |->
         [sm \in DOMAIN SmokingStatuses |->
            RunHandler(EntryTexts(<<a, h, w, s, ac, sm>>),
                       ActivityLevels[ac], SmokingStatuses[sm])
         ] @@ <<>> ] @@ <<>> ] @@ <<>> ] @@ <<>> ] @@ <<>> ] @@ <<>>

\* The click on "Generate Recommendations" with the form filled in as f,
\* h being Handled's entry for f.
calculate_health(f, h) ==
    /\ input_vars' = EntryTexts(f)
    /\ activity_var' = ActivityLevels[f[5]]
    /\ smoking_var' = SmokingStatuses[f[6]]
    /\ shown_before' = IF results_text = <<>> THEN "empty" ELSE "report"
    /\ messagebox' = IF h.error # "" THEN <<"Input Error", h.error>> ELSE <<>>
    /\ uncaught' = h.uncaught
    /\ calls' = h.calls
    /\ results_text' = IF h.error # "" \/ h.uncaught # ""
                       THEN ClearText(results_text)
                       ELSE InsertAtEnd(ClearText(results_text), h.report)
    /\ UNCHANGED engine_vars

(***************************************************************************)
(* The engine functions called on their own: a call is made from "idle"    *)
(* and its result is held until the caller returns to "idle".              *)
(***************************************************************************)
MaxWeight == 100
MaxHeightCm == 200
MaxBmiCenti == 3100
MaxAge == 70
MaxHalfHours == 24

Weights ==
    {IntToFloat(i) : i \in -1..MaxWeight} \cup {NaN, Inf(1), Inf(-1)}

Heights ==
    {Fin(c, 100) : c \in -1..MaxHeightCm}
        \cup {NaN, Inf(1), Inf(-1), Big(1), Big(-1), Small(1), Small(-1)}

Bmis ==
    {Fin(c, 100) : c \in -1..MaxBmiCenti} \cup {NaN, Inf(1), Inf(-1), Big(1)}

Ages == -1..MaxAge

Hours ==
    {Fin(n, 2) : n \in -1..MaxHalfHours} \cup {NaN, Inf(1)}

CallCalculateBmi ==
    /\ pc = "idle"
    /\ \E weight_kg \in Weights, height_m \in Heights :
        /\ pc' = "returned"
        /\ call' = <<"calculate_bmi", weight_kg, height_m>>
        /\ ret' = <<calculate_bmi(weight_kg, height_m)>>
        /\ UNCHANGED gui_vars

CallGetBmiCategory ==
    /\ pc = "idle"
    /\ \E bmi \in Bmis :
        /\ pc' = "returned"
        /\ call' = <<"get_bmi_category", bmi>>
        /\ ret' = <<get_bmi_category(bmi)>>
        /\ UNCHANGED gui_vars

CallGetSleepFeedback ==
    /\ pc = "idle"
    /\ \E age \in Ages, hours \in Hours :
        /\ pc' = "returned"
        /\ call' = <<"get_sleep_feedback", age, hours>>
        /\ ret' = <<get_sleep_feedback(age, hours)>>
        /\ UNCHANGED gui_vars

Return ==
    /\ pc = "returned"
    /\ pc' = "idle"
    /\ call' = <<>>
    /\ ret' = <<>>
    /\ UNCHANGED gui_vars

(***************************************************************************)
(* Specifications.                                                         *)
(***************************************************************************)
Init ==
    /\ input_vars = [age |-> <<>>, height_cm |-> <<>>, weight_kg |-> <<>>,
                     sleep_hours |-> <<>>]
    /\ activity_var = "Sedentary"
    /\ smoking_var = "No"
    /\ results_text = <<>>
    /\ messagebox = <<>>
    /\ uncaught = ""
    /\ calls = <<>>
    /\ shown_before = "none"
    /\ pc = "idle"
    /\ call = <<>>
    /\ ret = <<>>

Click ==
    \E f \in Forms : calculate_health(f, Handled[f[1]][f[2]][f[3]][f[4]][f[5]][f[6]])

Next == Click

\* The application: the window is built, then the button is clicked any
\* number of times.
Spec == Init /\ [][Next]_vars

EngineNext ==
    \/ CallCalculateBmi
    \/ CallGetBmiCategory
    \/ CallGetSleepFeedback
    \/ Return

\* The engine functions exercised directly.
EngineSpec == Init /\ [][EngineNext]_vars

(***************************************************************************)
(* Properties.                                                             *)
(***************************************************************************)
Clicked == shown_before # "none"

\* The form contents iv do not pass the try block of calculate_health: a
\* field does not parse or a value is out of range.
InvalidInput(iv) ==
    \/ ~PyInt(iv.age).ok
    \/ IsExc(PyFloat(iv.height_cm))
    \/ IsExc(PyFloat(iv.weight_kg))
    \/ IsExc(PyFloat(iv.sleep_hours))
    \/ PyInt(iv.age).v <= 0
    \/ FLe(PyFloat(iv.height_cm), Zero)
    \/ FLe(PyFloat(iv.weight_kg), Zero)
    \/ FLt(PyFloat(iv.sleep_hours), Zero)

Returned(function) == pc = "returned" /\ call[1] = function

\* C1 as claimed: a click that ends in the Invalid Input alert leaves the
\* displayed text as it was before the click.
C1_RejectedLeavesTextUntouched ==
    [][messagebox' # <<>> => results_text' = results_text]_vars

\* C1 amended: a click that ends in the Invalid Input alert leaves the Text
\* widget empty, whatever it displayed before.
C1_RejectedLeavesTextEmpty ==
    [][messagebox' # <<>> => results_text' = <<>>]_vars

C1_Witness ==
    messagebox # <<>> /\ shown_before = "report" /\ results_text = <<>>

\* C2: after a click the alert is up exactly when the form is invalid; then
\* no engine function was invoked and no report is displayed; otherwise a
\* report is displayed.
C2_AlertExactlyWhenInvalid ==
    Clicked =>
        /\ (messagebox # <<>>) <=> InvalidInput(input_vars)
        /\ InvalidInput(input_vars) => calls = <<>> /\ results_text = <<>>
        /\ ~InvalidInput(input_vars) => messagebox = <<>> /\ results_text # <<>>

\* The part of C2 that does not depend on calculate_bmi returning: the alert
\* is up exactly when the form is invalid, and then nothing was computed.
C2_AlertPart ==
    Clicked =>
        /\ (messagebox # <<>>) <=> InvalidInput(input_vars)
        /\ InvalidInput(input_vars) => calls = <<>> /\ results_text = <<>>
        /\ ~InvalidInput(input_vars) => results_text # <<>> \/ uncaught # ""

SectionHeaders ==
    << "[ BMI Overall Meaning ]", "[ Sleep Recommendation ]",
       "[ Activity Recommendation ]", "[ Smoking Status Advice ]",
       "[ General Health & Diet Suggestions ]" >>

\* The lines of text that are the header h.
LinesOf(text, h) == {j \in DOMAIN text : text[j] = h}

\* Each of the five headers is a line of text, once, and they come in order.
SectionsInOrder(text) ==
    /\ \A i \in DOMAIN SectionHeaders :
           Cardinality(LinesOf(text, SectionHeaders[i])) = 1
    /\ \A i \in 1..(Len(SectionHeaders) - 1) :
           \A j \in LinesOf(text, SectionHeaders[i]) :
               \A k \in LinesOf(text, SectionHeaders[i + 1]) : j < k

ExampleForm ==
    /\ input_vars = [age |-> <<"2", "5">>, height_cm |-> <<"1", "7", "0">>,
                     weight_kg |-> <<"7", "0">>, sleep_hours |-> <<"8">>]
    /\ activity_var = "Moderate"
    /\ smoking_var = "No"

\* The BMI calculate_health computes from the form contents iv.
BmiOfForm(iv) == calculate_bmi(PyFloat(iv.weight_kg), FDiv100(PyFloat(iv.height_cm))).val

\* C8: after a click on a valid form nothing was raised and the displayed
\* report has the BMI and category lines of the form's BMI and the five
\* section headers in order; the example form gives 24.22, Normal weight.
C8_ValidFormYieldsReport ==
    (Clicked /\ ~InvalidInput(input_vars)) =>
        /\ uncaught = ""
        /\ Len(results_text) >= 24
        /\ results_text[7] = "Calculated BMI: " \o FormatFixed(BmiOfForm(input_vars), 2)
        /\ results_text[8] = "BMI Category: "
                                \o get_bmi_category(BmiOfForm(input_vars)).category
        /\ SectionsInOrder(results_text)
        /\ ExampleForm => /\ results_text[7] = "Calculated BMI: 24.22"
                          /\ results_text[8] = "BMI Category: Normal weight"

\* The part of C8 that holds when calculate_bmi returns.
C8_ReportPart ==
    (Clicked /\ ~InvalidInput(input_vars) /\ uncaught = "") =>
        /\ Len(results_text) >= 24
        /\ results_text[7] = "Calculated BMI: " \o FormatFixed(BmiOfForm(input_vars), 2)
        /\ results_text[8] = "BMI Category: "
                                \o get_bmi_category(BmiOfForm(input_vars)).category
        /\ SectionsInOrder(results_text)
        /\ ExampleForm => /\ results_text[7] = "Calculated BMI: 24.22"
                          /\ results_text[8] = "BMI Category: Normal weight"

\* C9: the displayed category is never 'Unknown' and the displayed ideal
\* range is never 0.0 to 0.0.
C9_CategoryNeverUnknown ==
    \A i \in DOMAIN results_text :
        /\ results_text[i] # "BMI Category: Unknown"
        /\ results_text[i] # "(Ideal BMI Range: 0.0 to 0.0)"

ReportTitle == "          COMPREHENSIVE HEALTH METRICS REPORT"

\* C10: after a click on a valid form the displayed text is one report, the
\* one of the form now in the widgets, with nothing of an earlier one.
C10_TextIsTheReportOfTheForm ==
    (Clicked /\ ~InvalidInput(input_vars)) =>
        /\ results_text # <<>>
        /\ Cardinality({i \in DOMAIN results_text : results_text[i] = ReportTitle}) = 1
        /\ results_text = RunHandler(input_vars, activity_var, smoking_var).report

\* The part of C10 that holds when calculate_bmi returns: whatever was
\* displayed before, the text is the one report of the form.
C10_ReplacedPart ==
    (Clicked /\ ~InvalidInput(input_vars) /\ uncaught = "") =>
        /\ Cardinality({i \in DOMAIN results_text : results_text[i] = ReportTitle}) = 1
        /\ results_text = RunHandler(input_vars, activity_var, smoking_var).report

\* C3: for a finite bmi >= 0 get_bmi_category returns an entry of the
\* table, that entry's interval contains bmi, and it is the only entry of
\* the table whose interval does.
C3_ExactlyOneCategoryContainsBmi ==
    (Returned("get_bmi_category") /\ IsFinite(call[2]) /\ FLe(Zero, call[2])) =>
        /\ \E i \in DOMAIN BMI_CATEGORIES : BMI_CATEGORIES[i] = ret[1]
        /\ FLe(ret[1].min_val, call[2])
        /\ FLt(call[2], ret[1].max_val)
        /\ Cardinality({i \in DOMAIN BMI_CATEGORIES :
                           /\ FLe(BMI_CATEGORIES[i].min_val, call[2])
                           /\ FLt(call[2], BMI_CATEGORIES[i].max_val)}) = 1

C3_Witness ==
    /\ Returned("get_bmi_category")
    /\ call[2] = Fin(2495, 100)
    /\ ret[1] = [category |-> "Normal weight", min_val |-> Fin(185, 10),
                 max_val |-> Fin(25, 1)]

\* C4: a finite bmi >= 0 below 18.5 is Underweight, from 18.5 and below 25
\* Normal weight, from 25 and below 30 Overweight, from 30 on Obesity: a bmi
\* equal to a threshold is in the upper category.
C4_ThresholdInUpperCategory ==
    (Returned("get_bmi_category") /\ IsFinite(call[2]) /\ FLe(Zero, call[2])) =>
        ret[1].category =
            IF FLt(call[2], Fin(185, 10)) THEN "Underweight"
            ELSE IF FLt(call[2], Fin(25, 1)) THEN "Normal weight"
            ELSE IF FLt(call[2], Fin(30, 1)) THEN "Overweight"
            ELSE "Obesity"

C4_Witness ==
    /\ Returned("get_bmi_category")
    /\ call[2] = Fin(25, 1)
    /\ ret[1].category = "Overweight"

\* The range and the age group C5 gives for an adult age.
ClaimedRange(age) ==
    IF age <= 64 THEN [min_h |-> 7, max_h |-> 9] ELSE [min_h |-> 7, max_h |-> 8]

ClaimedGroup(age) == IF age <= 64 THEN "18-64" ELSE "65+"

\* C5: under 18 the minors message; otherwise, with the range 7-9 up to 64
\* and 7-8 from 65, the below message iff hours < min, the above message
\* iff hours > max, the within message otherwise, each citing that range.
C5_SleepMessageByAgeAndHours ==
    Returned("get_sleep_feedback") =>
        /\ call[2] < 18 => ret[1] = MinorsMessage
        /\ call[2] >= 18 =>
            /\ (ret[1] = BelowMessage(call[3], ClaimedRange(call[2]), ClaimedGroup(call[2])))
                   <=> FLt(call[3], IntToFloat(7))
            /\ (ret[1] = AboveMessage(call[3], ClaimedRange(call[2]), ClaimedGroup(call[2])))
                   <=> FGt(call[3], IntToFloat(ClaimedRange(call[2]).max_h))
            /\ (ret[1] = WithinMessage(call[3], ClaimedRange(call[2])))
                   <=> ~FLt(call[3], IntToFloat(7))
                       /\ ~FGt(call[3], IntToFloat(ClaimedRange(call[2]).max_h))
        /\ (call[2] = 30 /\ call[3] = Fin(8, 1)) =>
               ret[1] = "Excellent! Your sleep of 8.0 hours falls perfectly within the recommended 7-9 hour range. Recommendation: Maintain this consistent sleep pattern for optimal health."
        /\ (call[2] = 70 /\ call[3] = Fin(6, 1)) =>
               ret[1] = "You slept 6.0 hours, which is less than the recommended 7-8 hours for your age group (65+). Recommendation: Try to prioritize an earlier bedtime and aim for a consistent sleep schedule to improve rest and focus."
        /\ (call[2] = 10 /\ call[3] = Fin(9, 1)) =>
               ret[1] = "Note: Specific recommendations for minors/children are not included in this model."

C5_Witness ==
    /\ Returned("get_sleep_feedback")
    /\ call[2] = 70
    /\ call[3] = Fin(6, 1)
    /\ ret[1] = BelowMessage(Fin(6, 1), [min_h |-> 7, max_h |-> 8], "65+")

\* C6: for finite weight_kg > 0 and height_m > 0 calculate_bmi returns a
\* number of hundredths that is within half a hundredth of
\* weight_kg / height_m^2.  With weight_kg / height_m^2 = N / D and the
\* result V / 100:  2 * |V * D - 100 * N| <= D.
C6_BmiIsQuotientRoundedToHundredths ==
    (/\ Returned("calculate_bmi")
     /\ call[2].k = "fin" /\ call[2].n > 0
     /\ call[3].k = "fin" /\ call[3].n > 0) =>
        /\ ret[1].val.k = "fin"
        /\ 100 % ret[1].val.d = 0
        /\ 2 * Abs(ret[1].val.n * (100 \div ret[1].val.d) * (call[2].d * call[3].n * call[3].n)
                   - 100 * (call[2].n * call[3].d * call[3].d))
             <= call[2].d * call[3].n * call[3].n

C6_Witness ==
    /\ Returned("calculate_bmi")
    /\ call[2] = Fin(70, 1)
    /\ call[3] = Fin(170, 100)
    /\ ret[1].val = Fin(2422, 100)

\* C7: for any weight_kg and any height_m <= 0 calculate_bmi returns 0.0,
\* raises nothing and executes no division (nor any other float operation).
C7_NonPositiveHeightGivesZero ==
    (Returned("calculate_bmi") /\ FLe(call[3], Zero)) =>
        ret[1] = [val |-> Zero, ops |-> <<>>]

C7_Witness ==
    /\ Returned("calculate_bmi")
    /\ call[2] = Fin(70, 1)
    /\ call[3] = Zero
    /\ ret[1] = [val |-> Zero, ops |-> <<>>]

====
